---- MODULE Spec2Model ----
(***************************************************************************)
(* PasRah tunnel lifecycle engine: TunnelManager (core/tunnel_manager.py)  *)
(* together with the parts of ConfigManager (core/config_manager.py) it    *)
(* writes to.  The registry, the local processes, the remote sessions,     *)
(* the persisted tunnel records and the event log are the state; the       *)
(* manager's public methods, the steps of the monitoring thread and the    *)
(* events of the operating system are the actions.                         *)
(***************************************************************************)
EXTENDS Integers, Sequences, FiniteSets, TLC

(***************************************************************************)
(* Bounds of the model.                                                    *)
(***************************************************************************)
\* running local processes and remote sessions that no registry entry holds
MaxOrphans == 1

(***************************************************************************)
(* Configuration universe.                                                 *)
(***************************************************************************)
TunnelIds == {"t1", "t2"}
ServerId == "s1"
BindPort == 8080
TunnelIndex(id) == IF id = "t1" THEN 0 ELSE 1
\* two handles per registry entry, and as many again for a call under way
PidSpace == 4 * Cardinality(TunnelIds)
SidSpace == 2 * Cardinality(TunnelIds)
RemotePortOf(id) == IF id = "t1" THEN 80 ELSE 53
RemoteHost == "localhost"
\* window of the local TCP helper port of a UDP tunnel
HelperOffsetLo == 1000
HelperOffsetHi == 2000
\* first candidate of the remote intermediate port search
IntermediateLo == 10000
None == 0
NoClock == -1

VARIABLES
    active_tunnels,   \* TunnelManager.active_tunnels: tunnel_id -> entry
    active_order,     \* insertion order of the keys of active_tunnels
    procs,            \* running local processes the registry holds: pid -> record
    orphans,          \* running local processes the registry does not hold
    sessions,         \* remote sessions the registry holds: sid -> record
    lost_sessions,    \* remote sessions the registry does not hold
    cfg,              \* ConfigManager.config["tunnels"]
    servers,          \* keys of ConfigManager.config["servers"]
    tunnel_logs,      \* rows the latest call inserted into tunnel_logs
    spawned,          \* number of subprocess.Popen calls of the latest call
    mon_pc,           \* position of the monitoring thread
    dead_tunnels,     \* the monitoring thread's local list
    monitoring_active,\* TunnelManager.monitoring_active
    now,              \* time.time() in seconds, or NoClock where time is not followed
    last_bandwidth_update, \* tunnel_id -> the key 'last_bandwidth_update' of its entry, where set
    bandwidth_stats,  \* rows the latest step inserted into bandwidth_stats
    teardown,         \* what the latest call terminated, closed and deleted, in order
    last              \* the call that has just completed, until its caller has the result

vars == <<active_tunnels, active_order, procs, orphans, sessions, lost_sessions,
          cfg, servers, tunnel_logs, spawned, mon_pc, dead_tunnels,
          monitoring_active, now, last_bandwidth_update, bandwidth_stats,
          teardown, last>>

timing == <<now, last_bandwidth_update, bandwidth_stats>>

(***************************************************************************)
(* The manager's state as one value, so that a method that calls another   *)
(* method is the composition of their effects.  St is the state a step     *)
(* starts from: nothing has been spawned, opened or logged by it yet.      *)
(***************************************************************************)
Old(f) == [x \in DOMAIN f |-> [f[x] EXCEPT !.born = FALSE]]

St == [active_tunnels |-> active_tunnels, active_order |-> active_order,
       procs |-> Old(procs), orphans |-> orphans,
       sessions |-> Old(sessions), lost_sessions |-> lost_sessions,
       cfg |-> cfg, servers |-> servers,
       tunnel_logs |-> <<>>, spawned |-> 0,
       now |-> now, last_bandwidth_update |-> last_bandwidth_update,
       bandwidth_stats |-> <<>>, teardown |-> <<>>]

Ret(S, ok, msg) == [s |-> S, ok |-> ok, msg |-> msg]

\* a function with one key removed / one key set
DropKey(f, k) == [x \in DOMAIN f \ {k} |-> f[x]]
PutKey(f, k, v) == [x \in DOMAIN f \cup {k} |-> IF x = k THEN v ELSE f[x]]
DropFromSeq(q, k) == SelectSeq(q, LAMBDA x : x # k)


(***************************************************************************)
(* Local sockets.  A process record is [tunnel_id, role, proto, port,      *)
(* born]; port = None is a process that runs without a listening socket,   *)
(* born marks a process spawned by the call whose result is in last.       *)
(***************************************************************************)
Listens(rec, proto, port) == rec.proto = proto /\ rec.port = port

Listening(S, proto, port) ==
    \/ \E p \in DOMAIN S.procs : Listens(S.procs[p], proto, port)
    \/ \E o \in S.orphans : Listens(o, proto, port)

\* socket.connect_ex(('127.0.0.1', port)) == 0 on a SOCK_STREAM socket
_is_port_in_use(S, port) == Listening(S, "tcp", port)

\* polls _is_port_in_use until the timeout (the first: a wait that does not
\* look at the port)
_wait_for_port_unpolled(S, port) == TRUE
_wait_for_port(S, port) == _is_port_in_use(S, port)

RECURSIVE _find_local_available_port(_, _, _)
_find_local_available_port(S, start_port, end_port) ==
    IF start_port >= end_port THEN None
    ELSE IF ~_is_port_in_use(S, start_port) THEN start_port
    ELSE _find_local_available_port(S, start_port + 1, end_port)

(***************************************************************************)
(* Local processes.                                                        *)
(***************************************************************************)
\* process.poll() is None
Alive(S, pid) == pid \in DOMAIN S.procs

\* handles of local processes the registry holds
HeldPids(S) ==
    UNION {IF S.active_tunnels[id].tunnel_type = "udp"
           THEN {S.active_tunnels[id].ssh_process,
                 S.active_tunnels[id].local_socat_process}
           ELSE {S.active_tunnels[id].process} : id \in DOMAIN S.active_tunnels}

\* the operating system hands out a pid no existing process has; a handle
\* the registry still holds keeps denoting its exited process
FreePids(S) == (1..PidSpace) \ (DOMAIN S.procs \cup HeldPids(S))
NewPid(S) == CHOOSE p \in FreePids(S) : \A q \in FreePids(S) : p <= q

\* subprocess.Popen; outcome is what the child has become when the caller
\* looks at it after its sleep
Popen(S, id, role, proto, port, outcome) ==
    LET rec == [tunnel_id |-> id, role |-> role, proto |-> proto,
                port |-> IF outcome = "listening" THEN port ELSE None,
                born |-> TRUE]
    IN [S EXCEPT !.procs = IF outcome = "exited" THEN @ ELSE PutKey(@, NewPid(S), rec),
                 !.spawned = @ + 1]

\* SIGTERM to the process group, SIGKILL after 5 s; an exited process is left
\* (the first: signals that do not end the process)
\* one entry of the record of a call's teardown: a process signalled, the
\* remote kill sent, a session closed, a registry entry deleted
Did(ev, n) == [ev |-> ev, n |-> n]

_kill_process_ignored(S, pid) == S
_kill_process(S, pid) ==
    [S EXCEPT !.procs = DropKey(@, pid),
              !.teardown = Append(@, Did("kill", pid))]

(***************************************************************************)
(* ConfigManager.                                                          *)
(***************************************************************************)
\* Optional[Dict] as a sequence of length 0 (None) or 1
get_tunnel(S, id) == IF id \in DOMAIN S.cfg THEN <<S.cfg[id]>> ELSE <<>>
get_server(S, server_id) == IF server_id \in S.servers THEN <<server_id>> ELSE <<>>

update_tunnel_status(S, id, status, pid) ==
    IF id \in DOMAIN S.cfg
    THEN [S EXCEPT !.cfg[id].status = status,
                   !.cfg[id].pid = IF pid # None THEN pid ELSE @]
    ELSE S

\* INSERT INTO tunnel_logs
log_event(S, id, event_type) ==
    [S EXCEPT !.tunnel_logs =
        Append(@, [tunnel_id |-> id, event_type |-> event_type])]

(***************************************************************************)
(* Remote sessions.  A session record is [open, relay, born]: relay is     *)
(* TRUE while the relay started through the session runs on the remote     *)
(* host, born marks a session opened by the call whose result is in last.  *)
(***************************************************************************)
HeldSids(S) ==
    {S.active_tunnels[id].ssh_connection :
        id \in {x \in DOMAIN S.active_tunnels : S.active_tunnels[x].tunnel_type = "udp"}}
FreeSids(S) == (1..SidSpace) \ (DOMAIN S.sessions \cup HeldSids(S))
NewSid(S) == CHOOSE p \in FreeSids(S) : \A q \in FreeSids(S) : p <= q

connect_with_key(S) ==
    [S EXCEPT !.sessions =
        PutKey(@, NewSid(S), [open |-> TRUE, relay |-> FALSE, born |-> TRUE])]

\* "which socat", and the package manager when it is missing: True when the
\* relay tool is there in the end
_ensure_socat_installed(S, sid, e) == e.install

_start_remote_process(S, sid) == [S EXCEPT !.sessions[sid].relay = TRUE]

SessionOpen(S, sid) == sid \in DOMAIN S.sessions /\ S.sessions[sid].open
RelayRunning(S, sid) == sid \in DOMAIN S.sessions /\ S.sessions[sid].relay

\* a closed session whose relay is gone leaves nothing behind
PutSession(S, sid, rec) ==
    [S EXCEPT !.sessions = IF rec.open \/ rec.relay THEN PutKey(@, sid, rec)
                           ELSE DropKey(@, sid)]

\* ssh.exec_command("kill <pid>"): raises on a closed session, swallowed
RemoteKill(S, sid) ==
    LET S1 == [S EXCEPT !.teardown = Append(@, Did("remote_kill", sid))]
    IN IF SessionOpen(S1, sid)
       THEN PutSession(S1, sid, [S1.sessions[sid] EXCEPT !.relay = FALSE])
       ELSE S1

\* ssh.close()
SessionClose(S, sid) ==
    LET S1 == [S EXCEPT !.teardown = Append(@, Did("close", sid))]
    IN IF sid \in DOMAIN S1.sessions
       THEN PutSession(S1, sid, [S1.sessions[sid] EXCEPT !.open = FALSE])
       ELSE S1

(***************************************************************************)
(* The registry.  A dict keeps the position of a key that is assigned      *)
(* again and appends a new key.                                            *)
(***************************************************************************)
Registered(S, id) == id \in DOMAIN S.active_tunnels

\* (the entry assigned is a new dict, without the key 'last_bandwidth_update')
SetEntry(S, id, entry) ==
    [S EXCEPT !.active_tunnels = PutKey(@, id, entry),
              !.active_order = IF Registered(S, id) THEN @ ELSE Append(@, id),
              !.last_bandwidth_update = DropKey(@, id)]

DelEntry(S, id) ==
    [S EXCEPT !.active_tunnels = DropKey(@, id),
              !.active_order = DropFromSeq(@, id),
              !.last_bandwidth_update = DropKey(@, id),
              !.teardown = Append(@, Did("del", TunnelIndex(id)))]

(***************************************************************************)
(* Pids and session ids are names only.  At the end of a step the          *)
(* processes and sessions the registry holds are renamed after the entry   *)
(* and the field that hold them, and a running process or a session the    *)
(* registry no longer holds is kept without a name.                        *)
(***************************************************************************)
MainPid(id) == 2 * TunnelIndex(id) + 1
SocatPid(id) == 2 * TunnelIndex(id) + 2
SlotSid(id) == TunnelIndex(id) + 1
\* a stored pid that is not the pid of the tunnel's registry entry
StalePid == -1

MainOf(entry) == IF entry.tunnel_type = "udp" THEN entry.ssh_process ELSE entry.process

Unnamed(rec) == [role |-> rec.role, proto |-> rec.proto, port |-> rec.port]
Lost(rec) == [open |-> rec.open, relay |-> rec.relay]

CanonEntry(id, entry) ==
    IF entry.tunnel_type = "udp"
    THEN [entry EXCEPT !.ssh_process = MainPid(id), !.pid = MainPid(id),
                       !.local_socat_process = SocatPid(id),
                       !.remote_process_info = SlotSid(id),
                       !.ssh_connection = SlotSid(id)]
    ELSE [entry EXCEPT !.process = MainPid(id), !.pid = MainPid(id)]

Canon(S) ==
    LET reg == DOMAIN S.active_tunnels
        udp == {id \in reg : S.active_tunnels[id].tunnel_type = "udp"}
        mains == {id \in reg : MainOf(S.active_tunnels[id]) \in DOMAIN S.procs}
        socats == {id \in udp :
                     S.active_tunnels[id].local_socat_process \in DOMAIN S.procs}
        held_sessions == {id \in udp :
                            S.active_tunnels[id].ssh_connection \in DOMAIN S.sessions}
    IN [S EXCEPT
         !.active_tunnels = [id \in reg |-> CanonEntry(id, S.active_tunnels[id])],
         !.procs =
            [p \in {MainPid(id) : id \in mains} \cup {SocatPid(id) : id \in socats} |->
                LET id == CHOOSE x \in reg : p \in {MainPid(x), SocatPid(x)}
                IN IF p = MainPid(id) THEN S.procs[MainOf(S.active_tunnels[id])]
                   ELSE S.procs[S.active_tunnels[id].local_socat_process]],
         !.orphans = @ \cup {Unnamed(S.procs[p]) : p \in DOMAIN S.procs \ HeldPids(S)},
         !.sessions =
            [q \in {SlotSid(id) : id \in held_sessions} |->
                LET id == CHOOSE x \in held_sessions : q = SlotSid(x)
                IN S.sessions[S.active_tunnels[id].ssh_connection]],
         !.lost_sessions =
            @ \cup {Lost(S.sessions[q]) : q \in DOMAIN S.sessions \ HeldSids(S)},
         !.cfg = [id \in DOMAIN S.cfg |->
                    [S.cfg[id] EXCEPT !.pid =
                        IF @ = None THEN None
                        ELSE IF id \in reg /\ @ = S.active_tunnels[id].pid
                             THEN MainPid(id) ELSE StalePid]]]

(***************************************************************************)
(* What the environment answers during one create_tunnel call.             *)
(*   reach    the TCP connect to the remote host:port succeeds             *)
(*   conn     connect_with_key returns a session                           *)
(*   install  _ensure_socat_installed returns True                         *)
(*   iport    _find_available_port's result (None: nothing free)           *)
(*   rstart   _start_remote_process returns the relay's pid                *)
(*   ssh1     the first forward of a UDP tunnel, after the 2 s sleep       *)
(*   ssh      the forward that stays, after the 2 s sleep                  *)
(*   socat    the local relay, after the 1 s sleep                         *)
(***************************************************************************)
SpawnOutcomes == {"listening", "hung", "exited"}
AllGood == [reach |-> TRUE, conn |-> TRUE, install |-> TRUE,
            iport |-> IntermediateLo, rstart |-> TRUE,
            ssh1 |-> "listening", ssh |-> "listening", socat |-> "listening"]

TcpInputs ==
    {[AllGood EXCEPT !.reach = FALSE]}
      \cup {[AllGood EXCEPT !.ssh = o] : o \in SpawnOutcomes}

UdpInputs ==
    {[AllGood EXCEPT !.reach = FALSE], [AllGood EXCEPT !.conn = FALSE],
     [AllGood EXCEPT !.install = FALSE], [AllGood EXCEPT !.iport = None],
     [AllGood EXCEPT !.rstart = FALSE], [AllGood EXCEPT !.ssh1 = "exited"],
     [AllGood EXCEPT !.ssh = "exited"]}
      \cup {[AllGood EXCEPT !.ssh1 = a, !.ssh = b, !.socat = c] :
                a \in {"listening", "hung"}, b \in {"listening", "hung"},
                c \in {"listening", "exited"}}

CreateInputs(S, id) ==
    IF id \in DOMAIN S.cfg /\ S.cfg[id].tunnel_type = "udp" THEN UdpInputs ELSE TcpInputs

(***************************************************************************)
(* create_tunnel                                                           *)
(***************************************************************************)
_create_tcp_tunnel(S, id, tunnel, e) ==
    LET pid == NewPid(S)
        S1 == Popen(S, id, "ssh", "tcp", tunnel.local_port, e.ssh)
    IN IF Alive(S1, pid)
       THEN IF _wait_for_port(S1, tunnel.local_port)
            THEN LET entry == [tunnel_type |-> "tcp",
                               process |-> pid,
                               pid |-> pid,
                               local_port |-> tunnel.local_port,
                               remote_host |-> tunnel.remote_host,
                               remote_port |-> tunnel.remote_port,
                               server_id |-> tunnel.server_id]
                     S2 == SetEntry(S1, id, entry)
                     S3 == update_tunnel_status(S2, id, "active", pid)
                     S4 == log_event(S3, id, "connect")
                 IN Ret(S4, TRUE, "TCP tunnel created successfully")
            ELSE Ret(_kill_process(S1, pid), FALSE, "TCP tunnel failed to bind to port")
       ELSE Ret(S1, FALSE, "TCP tunnel process failed")

_create_udp_tunnel(S, id, tunnel, e) ==
    IF ~e.conn THEN Ret(S, FALSE, "Cannot connect to remote server") ELSE
    LET ssh == NewSid(S)
        S1 == connect_with_key(S)
    IN
    IF ~_ensure_socat_installed(S1, ssh, e)
    THEN Ret(S1, FALSE, "Failed to install socat on remote server") ELSE
    IF e.iport = None
    THEN Ret(S1, FALSE, "Cannot find available intermediate port on remote server") ELSE
    IF ~e.rstart THEN Ret(S1, FALSE, "Failed to start remote socat bridge") ELSE
    LET S2 == _start_remote_process(S1, ssh)
        \* first forward, bound to the tunnel's own port number
        pid1 == NewPid(S2)
        S3 == Popen(S2, id, "ssh", "tcp", tunnel.local_port, e.ssh1)
    IN
    IF ~Alive(S3, pid1) THEN Ret(S3, FALSE, "SSH tunnel process failed") ELSE
    LET local_tcp_port ==
            _find_local_available_port(S3, tunnel.local_port + HelperOffsetLo,
                                           tunnel.local_port + HelperOffsetHi)
    IN
    IF local_tcp_port = None
    THEN Ret(_kill_process(S3, pid1), FALSE, "Cannot find available local TCP port") ELSE
    LET S4 == _kill_process(S3, pid1)
        \* the forward restarted on the helper port
        pid2 == NewPid(S4)
        S5 == Popen(S4, id, "ssh", "tcp", local_tcp_port, e.ssh)
    IN
    IF ~Alive(S5, pid2) THEN Ret(S5, FALSE, "SSH tunnel process failed on retry") ELSE
    LET pid3 == NewPid(S5)
        S6 == Popen(S5, id, "socat", "udp", tunnel.local_port, e.socat)
    IN
    IF ~Alive(S6, pid3)
    THEN Ret(_kill_process(S6, pid2), FALSE, "Local socat bridge failed") ELSE
    LET entry == [tunnel_type |-> "udp",
                  ssh_process |-> pid2,
                  local_socat_process |-> pid3,
                  remote_process_info |-> ssh,
                  ssh_connection |-> ssh,
                  pid |-> pid2,
                  local_port |-> tunnel.local_port,
                  remote_host |-> tunnel.remote_host,
                  remote_port |-> tunnel.remote_port,
                  server_id |-> tunnel.server_id,
                  intermediate_port |-> e.iport,
                  local_tcp_port |-> local_tcp_port]
        S7 == SetEntry(S6, id, entry)
        S8 == update_tunnel_status(S7, id, "active", pid2)
        S9 == log_event(S8, id, "connect")
    IN Ret(S9, TRUE, "UDP tunnel created successfully")

\* (the first: a create that starts the processes without probing the remote host)
create_tunnel_unprobed(S, id, e) ==
    IF get_tunnel(S, id) = <<>> THEN Ret(S, FALSE, "Tunnel configuration not found") ELSE
    LET tunnel == get_tunnel(S, id)[1] IN
    IF get_server(S, tunnel.server_id) = <<>>
    THEN Ret(S, FALSE, "Remote server configuration not found") ELSE
    IF _is_port_in_use(S, tunnel.local_port)
    THEN Ret(S, FALSE, "Local port is already in use") ELSE
    IF tunnel.tunnel_type = "udp"
    THEN _create_udp_tunnel(S, id, tunnel, e)
    ELSE _create_tcp_tunnel(S, id, tunnel, e)

create_tunnel(S, id, e) ==
    IF get_tunnel(S, id) = <<>> THEN Ret(S, FALSE, "Tunnel configuration not found") ELSE
    LET tunnel == get_tunnel(S, id)[1] IN
    IF get_server(S, tunnel.server_id) = <<>>
    THEN Ret(S, FALSE, "Remote server configuration not found") ELSE
    IF _is_port_in_use(S, tunnel.local_port)
    THEN Ret(S, FALSE, "Local port is already in use") ELSE
    IF ~e.reach THEN Ret(S, FALSE, "Remote server unreachable") ELSE
    IF tunnel.tunnel_type = "udp"
    THEN _create_udp_tunnel(S, id, tunnel, e)
    ELSE _create_tcp_tunnel(S, id, tunnel, e)

(***************************************************************************)
(* destroy_tunnel, restart_tunnel, get_tunnel_status                       *)
(***************************************************************************)
\* (the first: a destroy that gives up on a process that has exited)
_destroy_tcp_tunnel_exited_kept(S, id, tunnel_info) ==
    IF ~Alive(S, tunnel_info.process) THEN Ret(S, FALSE, "Failed to destroy TCP tunnel")
    ELSE Ret(log_event(update_tunnel_status(
                DelEntry(_kill_process(S, tunnel_info.process), id), id, "inactive", None),
                id, "disconnect"),
             TRUE, "TCP tunnel destroyed successfully")

_destroy_tcp_tunnel(S, id, tunnel_info) ==
    LET S1 == _kill_process(S, tunnel_info.process)
        S2 == DelEntry(S1, id)
        S3 == update_tunnel_status(S2, id, "inactive", None)
        S4 == log_event(S3, id, "disconnect")
    IN Ret(S4, TRUE, "TCP tunnel destroyed successfully")

\* (the first: a teardown that closes the session before it sends the remote kill)
_destroy_udp_tunnel_close_first(S, id, tunnel_info) ==
    LET S1 == _kill_process(S, tunnel_info.local_socat_process)
        S2 == _kill_process(S1, tunnel_info.ssh_process)
        S3 == SessionClose(S2, tunnel_info.ssh_connection)
        S4 == RemoteKill(S3, tunnel_info.ssh_connection)
        S5 == DelEntry(S4, id)
        S6 == update_tunnel_status(S5, id, "inactive", None)
        S7 == log_event(S6, id, "disconnect")
    IN Ret(S7, TRUE, "UDP tunnel destroyed successfully")

_destroy_udp_tunnel(S, id, tunnel_info) ==
    LET S1 == _kill_process(S, tunnel_info.local_socat_process)
        S2 == _kill_process(S1, tunnel_info.ssh_process)
        S3 == RemoteKill(S2, tunnel_info.ssh_connection)
        S4 == SessionClose(S3, tunnel_info.ssh_connection)
        S5 == DelEntry(S4, id)
        S6 == update_tunnel_status(S5, id, "inactive", None)
        S7 == log_event(S6, id, "disconnect")
    IN Ret(S7, TRUE, "UDP tunnel destroyed successfully")

\* (the first: a destroy that clears the record of a tunnel it does not hold)
destroy_tunnel_clearing(S, id) ==
    IF ~Registered(S, id)
    THEN Ret(log_event(update_tunnel_status(S, id, "inactive", None), id, "disconnect"),
             FALSE, "Tunnel is not active")
    ELSE IF S.active_tunnels[id].tunnel_type = "udp"
         THEN _destroy_udp_tunnel(S, id, S.active_tunnels[id])
         ELSE _destroy_tcp_tunnel(S, id, S.active_tunnels[id])

destroy_tunnel(S, id) ==
    IF ~Registered(S, id) THEN Ret(S, FALSE, "Tunnel is not active") ELSE
    LET tunnel_info == S.active_tunnels[id] IN
    IF tunnel_info.tunnel_type = "udp"
    THEN _destroy_udp_tunnel(S, id, tunnel_info)
    ELSE _destroy_tcp_tunnel(S, id, tunnel_info)

\* (the first: a restart that leaves a registered tunnel as it is)
restart_tunnel_skipping(S, id, e) ==
    IF Registered(S, id) THEN Ret(S, TRUE, "Tunnel restarted") ELSE create_tunnel(S, id, e)

restart_tunnel(S, id, e) ==
    IF Registered(S, id)
    THEN LET destroy_result == destroy_tunnel(S, id)
         IN IF ~destroy_result.ok THEN destroy_result
            ELSE create_tunnel(destroy_result.s, id, e)
    ELSE create_tunnel(S, id, e)

_get_tcp_tunnel_status(S, tunnel_info) ==
    IF Alive(S, tunnel_info.process)
    THEN IF _is_port_in_use(S, tunnel_info.local_port) THEN "active" ELSE "error"
    ELSE "dead"

\* (the first: a status that looks at the forward only)
_get_udp_tunnel_status_ssh_only(S, tunnel_info) ==
    IF Alive(S, tunnel_info.ssh_process) THEN "active" ELSE "dead"

_get_udp_tunnel_status(S, tunnel_info) ==
    LET ssh_alive == Alive(S, tunnel_info.ssh_process)
        socat_alive == Alive(S, tunnel_info.local_socat_process)
    IN IF ssh_alive /\ socat_alive THEN "active" ELSE "dead"

get_tunnel_status(S, id) ==
    IF ~Registered(S, id) THEN "inactive"
    ELSE IF S.active_tunnels[id].tunnel_type = "udp"
         THEN _get_udp_tunnel_status(S, S.active_tunnels[id])
         ELSE _get_tcp_tunnel_status(S, S.active_tunnels[id])

(***************************************************************************)
(* The monitoring thread: one scan of the registry, then one iteration of  *)
(* the restart loop per tunnel the scan found dead, then the sleep.        *)
(***************************************************************************)
MonitorFindsDead(S, id) ==
    LET tunnel_info == S.active_tunnels[id] IN
    IF tunnel_info.tunnel_type = "tcp"
    THEN \/ ~Alive(S, tunnel_info.process)
         \/ ~_is_port_in_use(S, tunnel_info.local_port)
    ELSE ~(Alive(S, tunnel_info.ssh_process) /\ Alive(S, tunnel_info.local_socat_process))

\* hasattr(tunnel_info, name) for a dict: true of the attributes of the dict
\* type, whatever keys the dict holds
DictAttributes ==
    {"clear", "copy", "fromkeys", "get", "items", "keys", "pop", "popitem",
     "setdefault", "update", "values"}

hasattr(tunnel_info, name) == name \in DictAttributes

FlushSeconds == 60

\* INSERT INTO bandwidth_stats
log_bandwidth(S, id) ==
    [S EXCEPT !.bandwidth_stats = Append(@, [tunnel_id |-> id, duration |-> FlushSeconds])]

\* where time is not followed (NoClock) the timestamps are not kept
_update_bandwidth_stats(S, id) ==
    IF S.now = NoClock THEN S
    ELSE LET tunnel_info == S.active_tunnels[id]
             current_time == S.now
         IN IF ~hasattr(tunnel_info, "last_bandwidth_update")
            THEN [S EXCEPT !.last_bandwidth_update = PutKey(@, id, current_time)]
            ELSE IF current_time - S.last_bandwidth_update[id] >= FlushSeconds
                 THEN [log_bandwidth(S, id) EXCEPT
                         !.last_bandwidth_update = PutKey(@, id, current_time)]
                 ELSE S

RECURSIVE ScanFrom(_, _)
ScanFrom(S, ids) ==
    IF ids = <<>> THEN S
    ELSE IF MonitorFindsDead(S, Head(ids)) THEN ScanFrom(S, Tail(ids))
         ELSE ScanFrom(_update_bandwidth_stats(S, Head(ids)), Tail(ids))

MonitorScanResult(S) ==
    [s |-> ScanFrom(S, S.active_order),
     dead |-> SelectSeq(S.active_order, LAMBDA id : MonitorFindsDead(S, id))]

\* (the first: a restart loop that does not look at auto_start)
AutoStart_ignored(S, id) == TRUE

AutoStart(S, id) == get_tunnel(S, id) # <<>> /\ get_tunnel(S, id)[1].auto_start

\* the body of the restart loop for one tunnel with auto_start (the first:
\* without the "reconnect" row)
MonitorDrop_unlogged(S, id) == IF Registered(S, id) THEN DelEntry(S, id) ELSE S

MonitorDrop(S, id) ==
    LET S1 == IF Registered(S, id) THEN DelEntry(S, id) ELSE S
    IN log_event(S1, id, "reconnect")

MonitorRestartOne(S, id, e) == create_tunnel(MonitorDrop(S, id), id, e)

(***************************************************************************)
(* The registry is a plain dict shared by the request handlers and the     *)
(* monitoring thread, with no lock.  destroy_tunnel when the monitoring    *)
(* thread's `del self.active_tunnels[tunnel_id]` falls inside the call:    *)
(*   "test"    after the caller's membership test (restart_tunnel) and     *)
(*             before destroy_tunnel's own: the not-active failure;        *)
(*   "lookup"  between destroy_tunnel's test and its lookup of the entry:  *)
(*             KeyError, caught by destroy_tunnel;                         *)
(*   "del"     between the lookup and the call's own del: the members are  *)
(*             torn down, then KeyError, caught by _destroy_*_tunnel.      *)
(* The monitoring thread goes on to log "reconnect".                       *)
(***************************************************************************)
RacePoints == {"test", "lookup", "del"}

destroy_tunnel_raced(S, id, at) ==
    LET tunnel_info == S.active_tunnels[id]
        udp == tunnel_info.tunnel_type = "udp"
        S1 == _kill_process(S, tunnel_info.local_socat_process)
        S2 == _kill_process(S1, tunnel_info.ssh_process)
        S3 == RemoteKill(S2, tunnel_info.ssh_connection)
        S4 == SessionClose(S3, tunnel_info.ssh_connection)
        T1 == _kill_process(S, tunnel_info.process)
    IN CASE at = "test"   -> Ret(MonitorDrop(S, id), FALSE, "Tunnel is not active")
         [] at = "lookup" -> Ret(MonitorDrop(S, id), FALSE, "Failed to destroy tunnel")
         [] at = "del"    -> IF udp
                             THEN Ret(MonitorDrop(S4, id), FALSE, "Failed to destroy UDP tunnel")
                             ELSE Ret(MonitorDrop(T1, id), FALSE, "Failed to destroy TCP tunnel")

\* restart_tunnel with its destroy step raced: the failure of the destroy
\* step is returned as the result of the restart
restart_tunnel_raced(S, id, at) ==
    LET destroy_result == destroy_tunnel_raced(S, id, at)
    IN destroy_result

(***************************************************************************)
(* Initial state: the manager has just been constructed over a             *)
(* configuration of tunnels added with add_tunnel, and its monitoring      *)
(* thread is at the top of its loop.                                       *)
(***************************************************************************)
NewTunnel(id, kind, port, auto) ==
    [server_id |-> ServerId, local_port |-> port,
     remote_port |-> RemotePortOf(id), remote_host |-> RemoteHost,
     tunnel_type |-> kind, status |-> "inactive", pid |-> None,
     auto_start |-> auto]

\* one tunnel of either kind, with or without auto_start; or two tunnels,
\* the second a TCP tunnel, added with the same local port
Configs ==
    {[id \in {"t1"} |-> NewTunnel(id, k1, BindPort, a1)] :
        k1 \in {"tcp", "udp"}, a1 \in BOOLEAN}
    \cup {[id \in TunnelIds |->
             NewTunnel(id, IF id = "t1" THEN k1 ELSE "tcp", BindPort, TRUE)] :
                k1 \in {"tcp", "udp"}}

NoCall == [op |-> "none", by |-> "none", id |-> "none", ok |-> FALSE, msg |-> ""]
Call(op, by, id, r) == [op |-> op, by |-> by, id |-> id, ok |-> r.ok, msg |-> r.msg]

Constructed ==
    /\ active_tunnels = <<>>
    /\ active_order = <<>>
    /\ procs = <<>>
    /\ orphans = {}
    /\ sessions = <<>>
    /\ lost_sessions = {}
    /\ servers = {ServerId}
    /\ tunnel_logs = <<>>
    /\ spawned = 0
    /\ mon_pc = "sleep"
    /\ dead_tunnels = <<>>
    /\ monitoring_active = TRUE
    /\ last_bandwidth_update = <<>>
    /\ bandwidth_stats = <<>>
    /\ teardown = <<>>
    /\ last = NoCall

Init == Constructed /\ cfg \in Configs /\ now = NoClock

SetRegistry(S) ==
    \E C \in {Canon(S)} :
    /\ Cardinality(C.orphans) + Cardinality(C.lost_sessions) <= MaxOrphans
    /\ active_tunnels' = C.active_tunnels
    /\ active_order' = C.active_order
    /\ procs' = C.procs
    /\ orphans' = C.orphans
    /\ sessions' = C.sessions
    /\ lost_sessions' = C.lost_sessions
    /\ cfg' = C.cfg
    /\ servers' = C.servers
    /\ tunnel_logs' = C.tunnel_logs
    /\ spawned' = C.spawned
    /\ now' = C.now
    /\ last_bandwidth_update' = C.last_bandwidth_update
    /\ bandwidth_stats' = C.bandwidth_stats
    /\ teardown' = C.teardown

SetState(S) == SetRegistry(S) /\ monitoring_active' = monitoring_active

(***************************************************************************)
(* Calls of the request handlers.                                          *)
(***************************************************************************)
CreateTunnel(id) ==
    /\ last = NoCall
    /\ \E e \in CreateInputs(St, id) :
         \E r \in {create_tunnel(St, id, e)} :
            SetState(r.s) /\ last' = Call("create", "user", id, r)
    /\ UNCHANGED <<mon_pc, dead_tunnels>>

DestroyTunnel(id) ==
    /\ last = NoCall
    /\ \E r \in {destroy_tunnel(St, id)} :
            SetState(r.s) /\ last' = Call("destroy", "user", id, r)
    /\ UNCHANGED <<mon_pc, dead_tunnels>>

RestartTunnel(id) ==
    /\ last = NoCall
    /\ \E e \in CreateInputs(St, id) :
         \E r \in {restart_tunnel(St, id, e)} :
            SetState(r.s) /\ last' = Call("restart", "user", id, r)
    /\ UNCHANGED <<mon_pc, dead_tunnels>>

(***************************************************************************)
(* Steps of the monitoring thread.                                         *)
(***************************************************************************)
\* the top of the loop, after the sleep of a cycle or the longer one that
\* follows a cycle that raised
MonitorScan ==
    /\ last = NoCall
    /\ mon_pc \in {"sleep", "backoff"}
    /\ monitoring_active
    /\ \E r \in {MonitorScanResult(St)} :
          /\ SetState(r.s)
          /\ dead_tunnels' = r.dead
          /\ mon_pc' = IF r.dead = <<>> THEN "sleep" ELSE "restart"
    /\ last' = [NoCall EXCEPT !.op = "scan", !.by = "monitor"]

MonitorRestart ==
    /\ last = NoCall
    /\ mon_pc = "restart"
    /\ LET id == Head(dead_tunnels) IN
         IF AutoStart(St, id)
         THEN \E e \in CreateInputs(St, id) :
                 \E r \in {MonitorRestartOne(St, id, e)} :
                    SetState(r.s) /\ last' = Call("create", "monitor", id, r)
         ELSE /\ SetState(St)
              /\ last' = [NoCall EXCEPT !.op = "skip", !.by = "monitor", !.id = id]
    /\ dead_tunnels' = Tail(dead_tunnels)
    /\ mon_pc' = IF Tail(dead_tunnels) = <<>> THEN "sleep" ELSE "restart"

\* the monitoring thread is in the body of its restart loop for id, about to
\* delete the entry of id
MonitorAboutToDrop(id) ==
    /\ mon_pc = "restart"
    /\ Head(dead_tunnels) = id
    /\ AutoStart(St, id)
    /\ Registered(St, id)

DestroyRaced(id) ==
    /\ last = NoCall
    /\ MonitorAboutToDrop(id)
    /\ \E at \in RacePoints \ {"test"} :
         \E r \in {destroy_tunnel_raced(St, id, at)} :
            SetState(r.s) /\ last' = Call("destroy", "user", id, r)
    /\ mon_pc' = "recreate"
    /\ UNCHANGED dead_tunnels

RestartRaced(id) ==
    /\ last = NoCall
    /\ MonitorAboutToDrop(id)
    /\ \E at \in RacePoints :
         \E r \in {restart_tunnel_raced(St, id, at)} :
            SetState(r.s) /\ last' = Call("restart", "user", id, r)
    /\ mon_pc' = "recreate"
    /\ UNCHANGED dead_tunnels

\* the monitoring thread, having deleted the entry and logged "reconnect"
\* while a request handler was in destroy_tunnel, calls create_tunnel
MonitorRecreate ==
    /\ last = NoCall
    /\ mon_pc = "recreate"
    /\ LET id == Head(dead_tunnels) IN
         \E e \in CreateInputs(St, id) :
             \E r \in {create_tunnel(St, id, e)} :
                SetState(r.s) /\ last' = Call("create", "monitor", id, r)
    /\ dead_tunnels' = Tail(dead_tunnels)
    /\ mon_pc' = IF Tail(dead_tunnels) = <<>> THEN "sleep" ELSE "restart"

(***************************************************************************)
(* The caller has the result of the call: what the call spawned, opened    *)
(* and logged is no longer the work of the latest call.                    *)
(***************************************************************************)
Returned ==
    /\ last # NoCall
    /\ procs' = Old(procs)
    /\ sessions' = Old(sessions)
    /\ tunnel_logs' = <<>>
    /\ spawned' = 0
    /\ bandwidth_stats' = <<>>
    /\ teardown' = <<>>
    /\ last' = NoCall
    /\ UNCHANGED <<active_tunnels, active_order, orphans, lost_sessions, cfg, servers,
                   mon_pc, dead_tunnels, monitoring_active, now,
                   last_bandwidth_update>>

(***************************************************************************)
(* The operating system and the remote host.                               *)
(***************************************************************************)
\* a local process exits (crash, external kill)
ProcessExit(pid) ==
    /\ last = NoCall
    /\ pid \in DOMAIN procs
    /\ SetState([St EXCEPT !.procs = DropKey(@, pid)])
    /\ UNCHANGED <<mon_pc, dead_tunnels, last>>

\* a forward keeps running but its listening socket is gone
ProcessHang(pid) ==
    /\ last = NoCall
    /\ pid \in DOMAIN procs
    /\ procs[pid].role = "ssh" /\ procs[pid].port # None
    /\ SetState([St EXCEPT !.procs[pid].port = None])
    /\ UNCHANGED <<mon_pc, dead_tunnels, last>>

\* a local process the registry does not hold exits
OrphanExit(o) ==
    /\ last = NoCall
    /\ o \in orphans
    /\ SetState([St EXCEPT !.orphans = orphans \ {o}])
    /\ UNCHANGED <<mon_pc, dead_tunnels, last>>

\* the relay on the remote host exits
RelayExit(sid) ==
    /\ last = NoCall
    /\ RelayRunning(St, sid)
    /\ SetState(PutSession(St, sid, [St.sessions[sid] EXCEPT !.relay = FALSE]))
    /\ UNCHANGED <<mon_pc, dead_tunnels, last>>

LostRelayExit(o) ==
    /\ last = NoCall
    /\ o \in lost_sessions /\ o.relay
    /\ SetState([St EXCEPT !.lost_sessions =
            (lost_sessions \ {o})
                \cup IF o.open THEN {[o EXCEPT !.relay = FALSE]} ELSE {}])
    /\ UNCHANGED <<mon_pc, dead_tunnels, last>>

Next ==
    \/ \E id \in TunnelIds : CreateTunnel(id)
    \/ \E id \in TunnelIds : DestroyTunnel(id)
    \/ \E id \in TunnelIds : RestartTunnel(id)
    \/ MonitorScan
    \/ MonitorRestart
    \/ \E id \in TunnelIds : DestroyRaced(id)
    \/ \E id \in TunnelIds : RestartRaced(id)
    \/ MonitorRecreate
    \/ Returned
    \/ \E pid \in 1..PidSpace : ProcessExit(pid)
    \/ \E pid \in 1..PidSpace : ProcessHang(pid)
    \/ \E o \in orphans : OrphanExit(o)
    \/ \E sid \in 1..SidSpace : RelayExit(sid)
    \/ \E o \in lost_sessions : LostRelayExit(o)

Spec == Init /\ [][Next]_vars

(***************************************************************************)
(* The manager inside the web service: the tunnel list is requested, the   *)
(* monitoring thread meets the request handlers on the registry while it   *)
(* iterates, and the service shuts the monitoring down.  One tunnel is     *)
(* configured.                                                             *)
(***************************************************************************)
\* GET /api/tunnels: get_tunnels() returns config["tunnels"] itself, and the
\* handler assigns the live status to every record of it
ListTunnels ==
    /\ last = NoCall
    /\ cfg' = [id \in DOMAIN cfg |->
                 [cfg[id] EXCEPT !.status = get_tunnel_status(St, id)]]
    /\ UNCHANGED <<active_tunnels, active_order, procs, orphans, sessions,
                   lost_sessions, servers, tunnel_logs, spawned, mon_pc,
                   dead_tunnels, monitoring_active, last>>
    /\ UNCHANGED <<timing, teardown>>

\* `except Exception` of the loop body: the error is printed, the thread
\* sleeps 30 s and the while loop goes on (the first: the error leaves the loop)
MonitorOnError_uncaught(pc) == "stopped"

MonitorOnError(pc) == "backoff"

\* a cycle raises: the call that has just completed changed the size of
\* active_tunnels while the scan iterated over it (RuntimeError), or it
\* deleted the entry between the restart loop's membership test and its del
\* (KeyError)
CycleRaises ==
    \/ /\ mon_pc \in {"sleep", "backoff"}
       /\ last.by = "user" /\ last.ok
       /\ last.op \in {"destroy", "restart"}
    \/ /\ mon_pc = "restart"
       /\ last.op = "destroy" /\ last.id = Head(dead_tunnels)
       /\ last.by = "user" /\ last.ok

MonitorCycleError ==
    /\ monitoring_active
    /\ CycleRaises
    /\ mon_pc' = MonitorOnError(mon_pc)
    /\ dead_tunnels' = <<>>
    /\ UNCHANGED <<active_tunnels, active_order, procs, orphans, sessions,
                   lost_sessions, cfg, servers, tunnel_logs, spawned,
                   monitoring_active, last>>
    /\ UNCHANGED <<timing, teardown>>

StopMonitoring ==
    /\ last = NoCall
    /\ monitoring_active
    /\ monitoring_active' = FALSE
    /\ UNCHANGED <<active_tunnels, active_order, procs, orphans, sessions,
                   lost_sessions, cfg, servers, tunnel_logs, spawned, mon_pc,
                   dead_tunnels, last>>
    /\ UNCHANGED <<timing, teardown>>

\* the while condition is found false: the thread returns
MonitorExit ==
    /\ mon_pc \in {"sleep", "backoff"}
    /\ ~monitoring_active
    /\ mon_pc' = "stopped"
    /\ UNCHANGED <<active_tunnels, active_order, procs, orphans, sessions,
                   lost_sessions, cfg, servers, tunnel_logs, spawned,
                   dead_tunnels, monitoring_active, last>>
    /\ UNCHANGED <<timing, teardown>>

\* start_monitoring: returns at once while the previous thread is alive
\* (it has not yet found its while condition false); otherwise sets the flag
\* and starts a new thread
StartMonitoring ==
    /\ last = NoCall
    /\ IF mon_pc # "stopped"
       THEN UNCHANGED <<monitoring_active, mon_pc>>
       ELSE monitoring_active' = TRUE /\ mon_pc' = "sleep"
    /\ last' = [NoCall EXCEPT !.op = "start", !.by = "user"]
    /\ UNCHANGED <<active_tunnels, active_order, procs, orphans, sessions,
                   lost_sessions, cfg, servers, tunnel_logs, spawned,
                   dead_tunnels>>
    /\ UNCHANGED <<timing, teardown>>

InitService == Init /\ Cardinality(DOMAIN cfg) = 1

NextService ==
    \/ Next
    \/ ListTunnels
    \/ MonitorCycleError
    \/ StopMonitoring
    \/ MonitorExit
    \/ StartMonitoring

SpecService == InitService /\ [][NextService]_vars

(***************************************************************************)
(* The manager with time followed: the clock advances between the steps,   *)
(* and the scan of the monitoring thread keeps the bandwidth timestamps.   *)
(* One tunnel is configured.                                               *)
(***************************************************************************)
TickSeconds == 30
MaxNow == 120

Tick ==
    /\ last = NoCall
    /\ now # NoClock /\ now + TickSeconds <= MaxNow
    /\ now' = now + TickSeconds
    /\ UNCHANGED <<active_tunnels, active_order, procs, orphans, sessions,
                   lost_sessions, cfg, servers, tunnel_logs, spawned, mon_pc,
                   dead_tunnels, monitoring_active, last_bandwidth_update,
                   bandwidth_stats, teardown, last>>

InitTimed ==
    Constructed /\ cfg \in Configs /\ Cardinality(DOMAIN cfg) = 1 /\ now = 0

NextTimed == Next \/ Tick

SpecTimed == InitTimed /\ [][NextTimed]_vars

(***************************************************************************)
(* The manager over two UDP tunnels to the same server, on two local       *)
(* ports, under the calls that register and remove entries: create_tunnel  *)
(* and destroy_tunnel, with the local processes exiting on their own.      *)
(***************************************************************************)
InitUdpPair ==
    /\ Constructed
    /\ now = NoClock
    /\ cfg = [id \in TunnelIds |->
                NewTunnel(id, "udp", BindPort + TunnelIndex(id), FALSE)]

NextUdpPair ==
    \/ \E id \in TunnelIds : CreateTunnel(id)
    \/ \E id \in TunnelIds : DestroyTunnel(id)
    \/ Returned
    \/ \E pid \in 1..PidSpace : ProcessExit(pid)
    \/ \E o \in lost_sessions : LostRelayExit(o)

SpecUdpPair == InitUdpPair /\ [][NextUdpPair]_vars

(***************************************************************************)
(* The manager shut down by cleanup().  One tunnel is configured; cleanup   *)
(* is the only call that clears monitoring_active here, so the flag is     *)
(* false exactly when cleanup has been called, and no request handler is   *)
(* called after it: what goes on is the monitoring thread, which tests the *)
(* flag only at the top of its loop, and the processes.                    *)
(***************************************************************************)
RECURSIVE DestroyAll(_, _)
DestroyAll(S, ids) ==
    IF ids = <<>> THEN S
    ELSE DestroyAll(destroy_tunnel(S, Head(ids)).s, Tail(ids))

\* stop_monitoring (the join returns, on the thread's exit or after 5 s), then
\* destroy_tunnel for every key of a copy of the registry's keys
Cleanup ==
    /\ last = NoCall
    /\ monitoring_active
    /\ monitoring_active' = FALSE
    /\ SetRegistry(DestroyAll(St, active_order))
    /\ last' = [NoCall EXCEPT !.op = "cleanup", !.by = "user"]
    /\ UNCHANGED <<mon_pc, dead_tunnels>>

CleanedUp == ~monitoring_active

NextShutdown ==
    \/ monitoring_active /\ Next
    \/ Cleanup
    \/ CleanedUp /\ Returned
    \/ CleanedUp /\ MonitorRestart
    \/ CleanedUp /\ MonitorRecreate
    \/ CleanedUp /\ MonitorExit
    \/ CleanedUp /\ \E pid \in 1..PidSpace : ProcessExit(pid)
    \/ CleanedUp /\ \E o \in orphans : OrphanExit(o)

SpecShutdown == InitService /\ [][NextShutdown]_vars

\* the sleeps of the monitoring thread end, and callers take their results
SpecServiceFair ==
    SpecService /\ WF_vars(Returned) /\ SF_vars(MonitorScan) /\ WF_vars(MonitorExit)

TypeOK ==
    /\ DOMAIN active_tunnels \subseteq TunnelIds
    /\ DOMAIN sessions \subseteq 1..SidSpace
    /\ DOMAIN procs \subseteq 1..PidSpace
    /\ mon_pc \in {"sleep", "restart", "recreate", "backoff", "stopped"}
    /\ monitoring_active \in BOOLEAN
    /\ now \in {NoClock} \cup 0..MaxNow
    /\ DOMAIN last_bandwidth_update \subseteq DOMAIN active_tunnels

(***************************************************************************)
(* Vocabulary of the properties.                                           *)
(***************************************************************************)
\* the state as it is, with what the latest step spawned, opened and logged
Now == [active_tunnels |-> active_tunnels, active_order |-> active_order,
        procs |-> procs, orphans |-> orphans,
        sessions |-> sessions, lost_sessions |-> lost_sessions,
        cfg |-> cfg, servers |-> servers, tunnel_logs |-> tunnel_logs,
        spawned |-> spawned,
        now |-> now, last_bandwidth_update |-> last_bandwidth_update,
        bandwidth_stats |-> bandwidth_stats, teardown |-> teardown]

Status(id) == get_tunnel_status(Now, id)
KindOf(id) == cfg[id].tunnel_type
Row(id, event_type) == [tunnel_id |-> id, event_type |-> event_type]

\* the latest step was the call op(id), made by a request handler or by the
\* monitoring thread
Called(op, id) == last.op = op /\ last.id = id

\* the latest step started a local process or a remote session that the
\* registry holds
SpawnedLocal == \E p \in DOMAIN procs : procs[p].born
OpenedSession == \E q \in DOMAIN sessions : sessions[q].born

\* the tunnel's local bind port is bound by a listener of the tunnel's protocol
BindPortBound(id) == Listening(Now, KindOf(id), cfg[id].local_port)

(***************************************************************************)
(* C1: a create_tunnel(id) call made while the tunnel's local bind port is *)
(* already bound by a listener of the tunnel's protocol (a TCP listener    *)
(* for a TCP tunnel, a UDP listener for a UDP tunnel) returns the          *)
(* port-in-use failure, spawns no process, and leaves the registry and the *)
(* persisted status as they were (the monitoring thread's call: as its     *)
(* drop of the entry left them).                                           *)
(***************************************************************************)
C1_Step ==
    \A id \in DOMAIN cfg :
        (BindPortBound(id) /\ Called("create", id)') =>
            /\ ~last'.ok
            /\ last'.msg = "Local port is already in use"
            /\ spawned' = 0 /\ ~SpawnedLocal' /\ ~OpenedSession'
            /\ orphans' \subseteq orphans /\ lost_sessions' \subseteq lost_sessions
            /\ active_tunnels' = IF last'.by = "monitor"
                                 THEN DropKey(active_tunnels, id) ELSE active_tunnels
            /\ cfg'[id].status = cfg[id].status

C1_PortInUseRefused == [][C1_Step]_vars

(***************************************************************************)
(* C2: after create_tunnel(id) has returned success for a TCP tunnel       *)
(* (directly, or as the result of restart_tunnel), id is registered with   *)
(* one forwarding process, that process is alive and listens on the        *)
(* tunnel's local port, and get_tunnel_status(id) is "active".             *)
(***************************************************************************)
C2_TcpCreated ==
    \A id \in DOMAIN cfg :
        (last.id = id /\ last.op \in {"create", "restart"} /\ last.ok
            /\ KindOf(id) = "tcp") =>
            /\ Registered(Now, id)
            /\ active_tunnels[id].tunnel_type = "tcp"
            /\ Alive(Now, active_tunnels[id].process)
            /\ Cardinality({p \in DOMAIN procs : procs[p].tunnel_id = id}) = 1
            /\ Listens(procs[active_tunnels[id].process], "tcp", cfg[id].local_port)
            /\ _is_port_in_use(Now, cfg[id].local_port)
            /\ Status(id) = "active"

C2_Witness ==
    \E id \in DOMAIN cfg :
        /\ Called("create", id) /\ last.ok /\ KindOf(id) = "tcp"
        /\ Status(id) = "active"

(***************************************************************************)
(* C3: after create_tunnel(id) has returned success for a UDP tunnel the   *)
(* entry tracks three chain members: the forward, the local relay and the  *)
(* remote relay, all running.  From then on, when the forward or the       *)
(* local relay exits the status is no longer "active", and when only the   *)
(* remote relay exits the status stays what it was.                        *)
(***************************************************************************)
C3_Members ==
    \A id \in DOMAIN cfg :
        (last.id = id /\ last.op \in {"create", "restart"} /\ last.ok
            /\ KindOf(id) = "udp") =>
            /\ Registered(Now, id)
            /\ active_tunnels[id].tunnel_type = "udp"
            /\ LET entry == active_tunnels[id] IN
                /\ {"ssh_process", "local_socat_process", "remote_process_info"}
                        \subseteq DOMAIN entry
                /\ entry.ssh_process # entry.local_socat_process
                /\ Alive(Now, entry.ssh_process)
                /\ Alive(Now, entry.local_socat_process)
                /\ RelayRunning(Now, entry.remote_process_info)
                /\ {p \in DOMAIN procs : procs[p].tunnel_id = id} =
                        {entry.ssh_process, entry.local_socat_process}
            /\ Status(id) = "active"

C3_Step ==
    \A id \in DOMAIN active_tunnels :
        (active_tunnels[id].tunnel_type = "udp" /\ last' = NoCall) =>
            LET entry == active_tunnels[id] IN
            /\ (Alive(Now, entry.ssh_process) /\ ~Alive(Now', entry.ssh_process))
                    => Status(id)' # "active"
            /\ (Alive(Now, entry.local_socat_process)
                    /\ ~Alive(Now', entry.local_socat_process))
                    => Status(id)' # "active"
            /\ (RelayRunning(Now, entry.remote_process_info)
                    /\ ~RelayRunning(Now', entry.remote_process_info))
                    => Status(id)' = Status(id)

C3_UdpChain == [](C3_Members) /\ [][C3_Step]_vars

\* the remote relay of an active UDP tunnel has exited
C3_Witness ==
    \E id \in DOMAIN active_tunnels :
        /\ active_tunnels[id].tunnel_type = "udp"
        /\ ~RelayRunning(Now, active_tunnels[id].remote_process_info)
        /\ last = NoCall
        /\ Status(id) = "active"

(***************************************************************************)
(* C4: destroy_tunnel(id) on a registered id, whatever its processes have  *)
(* become, is followed by get_tunnel_status(id) = "inactive".              *)
(***************************************************************************)
C4_Step ==
    \A id \in DOMAIN active_tunnels :
        Called("destroy", id)' => Status(id)' = "inactive"

C4_DestroyedIsInactive == [][C4_Step]_vars

\* a destroy of a registered tunnel whose process had exited has returned
C4_Witness ==
    \E id \in DOMAIN cfg :
        /\ Called("destroy", id) /\ last.ok
        /\ id \notin DOMAIN active_tunnels
        /\ cfg[id].status = "inactive"

(***************************************************************************)
(* C5: restart_tunnel(id) on an active tunnel that returns success leaves  *)
(* id registered, every process and session the entry tracks started by    *)
(* the restart itself, and the entry's local port, remote host and remote  *)
(* port equal to the tunnel's configuration.                               *)
(***************************************************************************)
TrackedProcs(entry) ==
    IF entry.tunnel_type = "udp"
    THEN {entry.ssh_process, entry.local_socat_process} ELSE {entry.process}

C5_Step ==
    \A id \in DOMAIN active_tunnels :
        (Status(id) = "active" /\ Called("restart", id)' /\ last'.ok) =>
            /\ id \in DOMAIN active_tunnels'
            /\ LET entry == active_tunnels'[id] IN
                /\ \A p \in TrackedProcs(entry) : p \in DOMAIN procs' /\ procs'[p].born
                /\ entry.tunnel_type = "udp" =>
                        /\ entry.ssh_connection \in DOMAIN sessions'
                        /\ sessions'[entry.ssh_connection].born
                /\ spawned' >= Cardinality(TrackedProcs(entry))
                /\ entry.local_port = cfg'[id].local_port
                /\ entry.remote_host = cfg'[id].remote_host
                /\ entry.remote_port = cfg'[id].remote_port
            /\ orphans' = orphans

C5_RestartIsFresh == [][C5_Step]_vars

C5_Witness ==
    \E id \in DOMAIN active_tunnels :
        /\ Called("restart", id) /\ last.ok
        /\ tunnel_logs = <<Row(id, "disconnect"), Row(id, "connect")>>
        /\ \A p \in TrackedProcs(active_tunnels[id]) : p \in DOMAIN procs /\ procs[p].born

(***************************************************************************)
(* C6: for a tunnel with auto-restart: when a process of the active tunnel *)
(* exits its status is "dead"; the monitoring thread's next scan puts a    *)
(* tunnel whose status is "dead" on its list; and the restart loop of the  *)
(* same cycle logs a "reconnect" event for it before it creates it again,  *)
(* after which, the creation succeeding, the status is "active".           *)
(***************************************************************************)
C6_Step ==
    \A id \in DOMAIN cfg :
        cfg[id].auto_start =>
            /\ (Status(id) = "active" /\ last' = NoCall
                    /\ \E p \in TrackedProcs(active_tunnels[id]) : ~Alive(Now', p))
                 => Status(id)' = "dead"
            /\ (Status(id) = "dead" /\ mon_pc = "sleep" /\ last'.op = "scan")
                 => /\ mon_pc' = "restart"
                    /\ \E i \in DOMAIN dead_tunnels' : dead_tunnels'[i] = id
            /\ (mon_pc = "restart" /\ Head(dead_tunnels) = id /\ last'.by = "monitor")
                 => /\ Called("create", id)'
                    /\ tunnel_logs' # <<>> /\ Head(tunnel_logs') = Row(id, "reconnect")
                    /\ last'.ok =>
                         /\ tunnel_logs' = <<Row(id, "reconnect"), Row(id, "connect")>>
                         /\ Status(id)' = "active"

C6_MonitorReconnects == [][C6_Step]_vars

C6_Witness ==
    \E id \in DOMAIN cfg :
        /\ cfg[id].auto_start
        /\ Called("create", id) /\ last.by = "monitor" /\ last.ok
        /\ tunnel_logs = <<Row(id, "reconnect"), Row(id, "connect")>>
        /\ Status(id) = "active"

(***************************************************************************)
(* C7: after destroy_tunnel(id) has returned success for a TCP tunnel      *)
(* whose process was alive and held the tunnel's local port, that process  *)
(* is not alive any more and nothing accepts connections on the port.      *)
(***************************************************************************)
C7_Step ==
    \A id \in DOMAIN active_tunnels :
        (/\ active_tunnels[id].tunnel_type = "tcp"
         /\ Alive(Now, active_tunnels[id].process)
         /\ Listens(procs[active_tunnels[id].process], "tcp",
                    active_tunnels[id].local_port)
         /\ Called("destroy", id)' /\ last'.ok) =>
            /\ \A p \in DOMAIN procs' : procs'[p].tunnel_id # id
            /\ Unnamed(procs[active_tunnels[id].process]) \notin orphans'
            /\ ~_is_port_in_use(Now', active_tunnels[id].local_port)

C7_DestroyFreesPort == [][C7_Step]_vars

C7_Witness ==
    \E id \in DOMAIN cfg :
        /\ KindOf(id) = "tcp"
        /\ Called("destroy", id) /\ last.ok
        /\ ~_is_port_in_use(Now, cfg[id].local_port)
        /\ procs = <<>> /\ orphans = {}

(***************************************************************************)
(* C8: when the relay tool cannot be installed on the remote host, a       *)
(* create_tunnel(id) call for a UDP tunnel returns the tooling failure,    *)
(* no local process has been spawned or is left running, and id is not     *)
(* registered.                                                             *)
(***************************************************************************)
ToolingFailure == "Failed to install socat on remote server"

C8_Step ==
    \A id \in DOMAIN cfg :
        (Called("create", id)' /\ last'.msg = ToolingFailure) =>
            /\ ~last'.ok /\ KindOf(id) = "udp"
            /\ spawned' = 0
            /\ \A p \in DOMAIN procs' : procs'[p].tunnel_id # id
            /\ orphans' \subseteq orphans
            /\ id \notin DOMAIN active_tunnels'

C8_NoToolingNoProcess == [][C8_Step]_vars

(***************************************************************************)
(* C9: of the tunnels configured with one local bind port, whatever their  *)
(* kinds, at most one has a status other than "inactive".                  *)
(***************************************************************************)
C9_OnePerPort ==
    \A a, b \in DOMAIN cfg :
        (a # b /\ cfg[a].local_port = cfg[b].local_port) =>
            ~(Status(a) # "inactive" /\ Status(b) # "inactive")

(***************************************************************************)
(* C10: whenever no call is under way and the monitoring thread is between *)
(* two cycles, a tunnel has a registry entry exactly when its persisted    *)
(* status is "active".                                                     *)
(***************************************************************************)
C10_RegistryMatchesStatus ==
    mon_pc = "sleep" =>
        \A id \in DOMAIN cfg :
            (id \in DOMAIN active_tunnels) <=> (cfg[id].status = "active")

(***************************************************************************)
(* C11: whenever the registry entry of a tunnel is removed, by             *)
(* destroy_tunnel or by the monitoring thread after it found the tunnel    *)
(* dead, every member of the entry that was running has been terminated:   *)
(* no local process of the entry and no remote relay of it is left         *)
(* running without an entry.                                               *)
(***************************************************************************)
EntryRemoved(id) ==
    /\ id \in DOMAIN active_tunnels
    /\ \/ Called("destroy", id)' /\ id \notin DOMAIN active_tunnels'
       \/ Called("create", id)' /\ last'.by = "monitor"

C11_Step ==
    \A id \in DOMAIN active_tunnels :
        EntryRemoved(id) =>
            LET entry == active_tunnels[id] IN
            /\ \A p \in TrackedProcs(entry) \cap DOMAIN procs :
                    Unnamed(procs[p]) \in orphans' => Unnamed(procs[p]) \in orphans
            /\ (entry.tunnel_type = "udp" /\ RelayRunning(Now, entry.remote_process_info))
                    => \A o \in lost_sessions' \ lost_sessions : ~o.relay

C11_RemovedIsTornDown == [][C11_Step]_vars

(***************************************************************************)
(* C12: after create_tunnel(id) has returned failure, whatever the kind of *)
(* the tunnel, the step that failed and the caller (a request handler or   *)
(* the monitoring thread), the persisted status of id is "inactive" and id *)
(* has no registry entry.                                                  *)
(***************************************************************************)
C12_FailedCreateIsInactive ==
    \A id \in DOMAIN cfg :
        (Called("create", id) /\ ~last.ok) =>
            /\ cfg[id].status = "inactive"
            /\ id \notin DOMAIN active_tunnels

(***************************************************************************)
(* C15: after destroy_tunnel(id) has returned success the persisted record *)
(* of id has status "inactive" and no pid, and the call has recorded       *)
(* exactly one "disconnect" event for id.                                  *)
(***************************************************************************)
C15_DestroyClearsRecord ==
    \A id \in DOMAIN cfg :
        (Called("destroy", id) /\ last.ok) =>
            /\ cfg[id].status = "inactive"
            /\ cfg[id].pid = None
            /\ tunnel_logs = <<Row(id, "disconnect")>>

(***************************************************************************)
(* C16: destroy_tunnel(id) on an id without a registry entry returns the   *)
(* not-active failure and changes nothing: the registry, every persisted   *)
(* status and pid, the event log and all processes and sessions are as     *)
(* they were.                                                              *)
(***************************************************************************)
C16_Step ==
    \A id \in TunnelIds :
        (id \notin DOMAIN active_tunnels /\ Called("destroy", id)') =>
            /\ ~last'.ok /\ last'.msg = "Tunnel is not active"
            /\ active_tunnels' = active_tunnels /\ active_order' = active_order
            /\ cfg' = cfg
            /\ tunnel_logs' = <<>>
            /\ procs' = procs /\ orphans' = orphans /\ spawned' = 0
            /\ sessions' = sessions /\ lost_sessions' = lost_sessions

C16_DestroyUnregisteredIsNoOp == [][C16_Step]_vars

\* the not-active failure for a tunnel whose record says "active" and that
\* has left a process running
C16_Witness ==
    \E id \in DOMAIN cfg :
        /\ Called("destroy", id) /\ ~last.ok /\ last.msg = "Tunnel is not active"
        /\ cfg[id].status = "active"
        /\ orphans # {}

(***************************************************************************)
(* C19: when create_tunnel fails for a UDP tunnel after the remote relay   *)
(* has been started, every chain member started by the call (the local    *)
(* relay, the forward and the remote relay) has been terminated when the   *)
(* failure is returned.                                                    *)
(***************************************************************************)
AfterRelayFailures ==
    {"SSH tunnel process failed", "Cannot find available local TCP port",
     "SSH tunnel process failed on retry", "Local socat bridge failed"}

C19_Step ==
    \A id \in DOMAIN cfg :
        (Called("create", id)' /\ last'.msg \in AfterRelayFailures) =>
            /\ ~last'.ok
            /\ ~SpawnedLocal'
            /\ \A o \in orphans' \ orphans : FALSE
            /\ \A o \in lost_sessions' \ lost_sessions : ~o.relay

C19_FailedUdpCreateCleansUp == [][C19_Step]_vars

(***************************************************************************)
(* C13: under every interleaving of destroy_tunnel(id) with the steps of   *)
(* the monitoring thread for the same id (mark dead, drop the entry,       *)
(* re-create), there are never two live topologies for id: when the        *)
(* monitoring thread has re-created id after a destroy_tunnel(id) that ran *)
(* during its restart of id, nothing but the members of the new entry is   *)
(* running for id.  (Stated for a configuration whose only tunnel is id:   *)
(* every process and relay is then one of id.)                             *)
(***************************************************************************)
C13_Step ==
    \A id \in DOMAIN cfg :
        (/\ DOMAIN cfg = {id}
         /\ mon_pc = "recreate"
         /\ Called("create", id)' /\ last'.by = "monitor" /\ last'.ok) =>
            /\ orphans' = {}
            /\ \A o \in lost_sessions' : ~o.relay

C13_OneLiveTopology == [][C13_Step]_vars

(***************************************************************************)
(* C14: destroy_tunnel(id) on an id that has a registry entry always       *)
(* removes the entry and returns success.                                  *)
(***************************************************************************)
C14_Step ==
    \A id \in DOMAIN active_tunnels :
        Called("destroy", id)' =>
            /\ last'.ok
            /\ id \notin DOMAIN active_tunnels'

C14_DestroyAlwaysSucceeds == [][C14_Step]_vars

(***************************************************************************)
(* C20: restart_tunnel(id) always goes on to create_tunnel(id) after its   *)
(* destroy step and returns the result of create_tunnel, for an id without *)
(* a registry entry and, whatever the outcome of the destroy step, for an  *)
(* id with one.                                                            *)
(***************************************************************************)
CreateResults ==
    {"Tunnel configuration not found", "Remote server configuration not found",
     "Local port is already in use", "Remote server unreachable",
     "TCP tunnel created successfully", "TCP tunnel failed to bind to port",
     "TCP tunnel process failed",
     "Cannot connect to remote server", "Failed to install socat on remote server",
     "Cannot find available intermediate port on remote server",
     "Failed to start remote socat bridge", "SSH tunnel process failed",
     "Cannot find available local TCP port", "SSH tunnel process failed on retry",
     "Local socat bridge failed", "UDP tunnel created successfully"}

C20_Step ==
    \A id \in TunnelIds :
        Called("restart", id)' => last'.msg \in CreateResults

C20_RestartAlwaysCreates == [][C20_Step]_vars

(***************************************************************************)
(* C17: the monitoring loop never terminates unless stop_monitoring was    *)
(* requested: a cycle that raises (the registry was modified by a          *)
(* concurrent call while the loop worked on it) is caught, the thread goes *)
(* to its backoff sleep, and unless a stop is requested meanwhile a        *)
(* further cycle is run after it.                                          *)
(***************************************************************************)
C17_Step ==
    /\ mon_pc' = "stopped" => ~monitoring_active'
    /\ (monitoring_active /\ CycleRaises /\ mon_pc' # mon_pc) => mon_pc' = "backoff"

C17_MonitorKeepsRunning ==
    /\ [][C17_Step]_vars
    /\ (mon_pc = "backoff") ~> (last.op = "scan" \/ ~monitoring_active)

\* a successful destroy_tunnel ran into the monitoring thread's cycle, and
\* the thread is in its backoff sleep
C17_Witness ==
    /\ mon_pc = "backoff" /\ monitoring_active
    /\ last.op = "destroy" /\ last.ok

(***************************************************************************)
(* C18: in every reachable state the status stored in every tunnel record  *)
(* is "inactive", "active" or "dead"; nothing else is ever stored, by the  *)
(* manager or by a handler that lists the tunnels.                         *)
(***************************************************************************)
C18_StoredStatus ==
    \A id \in DOMAIN cfg : cfg[id].status \in {"inactive", "active", "dead"}

(***************************************************************************)
(* C21: for a registered TCP tunnel get_tunnel_status is "active" exactly  *)
(* when the forwarding process is alive and the local port accepts         *)
(* connections, and "dead" in every other case (the process has exited, or *)
(* it is running but the port is not listening).                           *)
(***************************************************************************)
C21_TcpStatus ==
    \A id \in DOMAIN active_tunnels :
        LET entry == active_tunnels[id] IN
        entry.tunnel_type = "tcp" =>
            Status(id) = IF Alive(Now, entry.process)
                            /\ Listening(Now, "tcp", entry.local_port)
                         THEN "active" ELSE "dead"

(***************************************************************************)
(* C22: every tunnel a monitor cycle found dead has its registry entry     *)
(* dropped and a "reconnect" event recorded by the cycle, whether or not   *)
(* auto_start is set for it: when the restart loop has handled id, the     *)
(* entry id had is gone from the registry and the "reconnect" row is       *)
(* written.                                                                *)
(***************************************************************************)
C22_Step ==
    \A id \in DOMAIN cfg :
        (/\ mon_pc = "restart" /\ Head(dead_tunnels) = id
         /\ last'.by = "monitor" /\ last'.id = id) =>
            /\ tunnel_logs' # <<>> /\ Head(tunnel_logs') = Row(id, "reconnect")
            /\ id \in DOMAIN active_tunnels' => (last'.op = "create" /\ last'.ok)

C22_DeadIsDropped == [][C22_Step]_vars

(***************************************************************************)
(* C23: the monitoring thread never calls create_tunnel for a tunnel whose *)
(* configuration has auto_start off, and spawns no process for it: the     *)
(* restart loop passes over it, leaving registry, processes and records as *)
(* they are.                                                               *)
(***************************************************************************)
C23_Step ==
    \A id \in DOMAIN cfg :
        (~cfg[id].auto_start /\ last'.by = "monitor" /\ last'.id = id) =>
            /\ last'.op = "skip"
            /\ spawned' = 0 /\ ~SpawnedLocal' /\ ~OpenedSession'
            /\ orphans' = orphans /\ lost_sessions' = lost_sessions

C23_NoAutoStartNoCreate == [][C23_Step]_vars

\* the restart loop has passed over a dead tunnel with auto_start off, which
\* is still registered
C23_Witness ==
    \E id \in DOMAIN active_tunnels :
        /\ ~cfg[id].auto_start
        /\ last.op = "skip" /\ last.by = "monitor" /\ last.id = id
        /\ Status(id) = "dead"

(***************************************************************************)
(* C24: for a registered tunnel that a monitor cycle finds alive, a cycle  *)
(* in which at least 60 s have passed since the tunnel's last flush emits  *)
(* a bandwidth record and sets the flush timestamp to the current time,    *)
(* and a cycle in which less has passed emits none and leaves the          *)
(* timestamp as it is.                                                     *)
(***************************************************************************)
C24_Step ==
    \A id \in DOMAIN last_bandwidth_update :
        (last'.op = "scan" /\ ~MonitorFindsDead(Now, id)) =>
            IF now - last_bandwidth_update[id] >= FlushSeconds
            THEN /\ \E i \in DOMAIN bandwidth_stats' : bandwidth_stats'[i].tunnel_id = id
                 /\ last_bandwidth_update'[id] = now
            ELSE /\ \A i \in DOMAIN bandwidth_stats' : bandwidth_stats'[i].tunnel_id # id
                 /\ last_bandwidth_update'[id] = last_bandwidth_update[id]

C24_BandwidthFlush == [][C24_Step]_vars

(***************************************************************************)
(* C25: destroy_tunnel on a UDP tunnel tears down in the order local       *)
(* relay, forward, remote relay, session close, registry removal; after it *)
(* the session opened for the tunnel is closed and its relay is not left   *)
(* running; and no session is referenced by the entries of two tunnels,    *)
(* whatever create_tunnel registers.                                       *)
(***************************************************************************)
C25_Step ==
    \A id \in DOMAIN active_tunnels :
        LET entry == active_tunnels[id] IN
        (entry.tunnel_type = "udp" /\ Called("destroy", id)' /\ last'.ok) =>
            /\ teardown' = << Did("kill", entry.local_socat_process),
                              Did("kill", entry.ssh_process),
                              Did("remote_kill", entry.ssh_connection),
                              Did("close", entry.ssh_connection),
                              Did("del", TunnelIndex(id)) >>
            /\ lost_sessions' = lost_sessions

\* the registry as create_tunnel(id) leaves it, before pids and sessions are
\* renamed after their entries
SessionsApart(S) ==
    \A a, b \in DOMAIN S.active_tunnels :
        (/\ a # b
         /\ S.active_tunnels[a].tunnel_type = "udp"
         /\ S.active_tunnels[b].tunnel_type = "udp") =>
            S.active_tunnels[a].ssh_connection # S.active_tunnels[b].ssh_connection

C25_Sessions ==
    /\ SessionsApart(Now)
    /\ last = NoCall =>
          \A id \in DOMAIN cfg : \A e \in CreateInputs(Now, id) :
              SessionsApart(create_tunnel(Now, id, e).s)

C25_UdpTeardown == [](C25_Sessions) /\ [][C25_Step]_vars

\* one of two registered UDP tunnels has just been destroyed, the other
\* still holds its open session
C25_Witness ==
    \E id \in DOMAIN cfg : \E other \in DOMAIN active_tunnels :
        /\ Called("destroy", id) /\ last.ok /\ Len(teardown) = 5
        /\ other # id /\ active_tunnels[other].tunnel_type = "udp"
        /\ SessionOpen(Now, active_tunnels[other].ssh_connection)

\* C26: create_tunnel spawns a process only after its three guards have passed
\* in order: the tunnel and its server are configured, the local port is not
\* in use, and the reachability probe succeeded.  When the configuration is
\* missing or the probe fails, it returns that failure, spawns nothing and
\* leaves the registry and the persisted status as they were.  (C26_Guards
\* states it of create_tunnel in every state a call can start from, C26_Step
\* of the calls of the request handlers; the monitor's step is its own removal
\* of the entry followed by create_tunnel.)
GuardFailures ==
    {"Tunnel configuration not found", "Remote server configuration not found",
     "Remote server unreachable"}

GuardsPass(S, id, e) ==
    /\ id \in DOMAIN S.cfg
    /\ S.cfg[id].server_id \in S.servers
    /\ ~_is_port_in_use(S, S.cfg[id].local_port)
    /\ e.reach

C26_Guards ==
    last = NoCall =>
        \A id \in TunnelIds : \A e \in CreateInputs(St, id) :
            LET r == create_tunnel(St, id, e) IN
            /\ r.s.spawned > 0 => GuardsPass(St, id, e)
            /\ (id \notin DOMAIN cfg) => r.msg = "Tunnel configuration not found"
            /\ (id \in DOMAIN cfg /\ cfg[id].server_id \notin servers)
                    => r.msg = "Remote server configuration not found"
            /\ (id \in DOMAIN cfg /\ cfg[id].server_id \in servers
                    /\ ~_is_port_in_use(St, cfg[id].local_port) /\ ~e.reach)
                    => r.msg = "Remote server unreachable"
            /\ r.msg \in GuardFailures => ~r.ok /\ r.s = St

C26_Step ==
    \A id \in TunnelIds :
        (last = NoCall /\ Called("create", id)' /\ last'.by = "user"
            /\ last'.msg \in GuardFailures) =>
            /\ ~last'.ok
            /\ spawned' = 0
            /\ procs' = procs
            /\ active_tunnels' = active_tunnels
            /\ cfg' = cfg

C26_GuardedCreate == [](C26_Guards) /\ [][C26_Step]_vars

C26_Witness ==
    \E id \in DOMAIN cfg :
        /\ Called("create", id) /\ ~last.ok /\ last.msg = "Remote server unreachable"
        /\ spawned = 0
        /\ active_tunnels # <<>>

\* C27: every live process the manager spawned belongs to the topology that
\* is registered for its tunnel id: create_tunnel(id) on an id that has a
\* registry entry never replaces the entry while a process of the old entry
\* is alive (only a successful create registers an entry), and so leaves no
\* live process without an entry.
C27_Step ==
    \A id \in DOMAIN active_tunnels :
        (/\ last = NoCall
         /\ Called("create", id)' /\ last'.by = "user"
         /\ \E pid \in TrackedProcs(active_tunnels[id]) : Alive(Now, pid)) =>
            /\ ~last'.ok
            /\ orphans' \subseteq orphans

C27_NoReplaceWhileAlive == [][C27_Step]_vars

\* C28: every remote session a UDP create_tunnel opened is held by a registry
\* entry or closed: neither a create_tunnel that fails after opening its
\* session nor a monitor cycle that drops a dead UDP tunnel's entry leaves an
\* open session, or a running remote relay, that no registry entry references.
C28_SessionsHeldOrClosed == lost_sessions = {}

\* C29: at most one monitoring thread runs at a time, and when a
\* start_monitoring() call has returned a monitoring loop is running and goes
\* on cycling until the next stop_monitoring(): the flag the loop tests is
\* set and the thread has not returned, also when start_monitoring() was
\* called after stop_monitoring() and before the previous thread exited.
C29_StartedLoopRuns ==
    last.op = "start" => (monitoring_active /\ mon_pc # "stopped")

\* C30: after cleanup() has returned the registry is empty and stays empty,
\* and it holds no running process: also when the monitoring thread was in
\* the middle of a cycle (it had found a dead tunnel, or was about to
\* re-create it) when cleanup() was called and did not exit within the join.
C30_CleanedUpStaysEmpty ==
    CleanedUp => (active_tunnels = <<>> /\ procs = <<>>)

====
